---- MODULE Spec2Model ----
(***************************************************************************)
(* Model of svg.py / svg_wrapper.py:                                       *)
(*   - preprocess_flat_keyed_rgb: RGBA raster -> hard-edged keyed RGB      *)
(*     raster (specification SpecFlat);                                    *)
(*   - remove_key_color_from_svg and the wrapper pipeline around it        *)
(*     (specification SpecSvg).                                            *)
(***************************************************************************)
EXTENDS Integers, Sequences, FiniteSets, TLC

VARIABLES pc, cfg, img, arr, mask, out, prev, run,
          stage, svg_text, bg_tol, cleaned, removed, strokestripped, exc

rvars == <<pc, cfg, img, arr, mask, out, prev, run>>

svars == <<stage, svg_text, bg_tol, cleaned, removed, strokestripped, exc>>

vars == <<rvars, svars>>

None == "None"

(***************************************************************************)
(* Bounds of the raster model: the raster handed to the mask stage (after  *)
(* the optional upscale) has at most MaxPixels pixels.                     *)
(***************************************************************************)
MaxPixels == 4

\* Bound of the vector model: a document has at most MaxElems elements.
MaxElems == 3

(***************************************************************************)
(* Colours and pixels.  An RGB colour is <<r, g, b>>, an RGBA pixel is     *)
(* <<r, g, b, a>>, every channel in 0..255.                                *)
(***************************************************************************)
DefaultWhite == <<255, 255, 255>>
DefaultBlue  == <<39, 110, 230>>
DefaultBg    == <<255, 0, 255>>
\* a palette colour that lies within the default bg-dist of the key colour
NearKeyWhite == <<255, 20, 255>>

\* an opaque colour equidistant from the default white and blue, fully
\* transparent black, and a near-blue whose alpha is the default cutoff
PixelSet == { <<202, 101, 240, 255>>, <<0, 0, 0, 0>>, <<40, 110, 230, 128>> }

Scales       == {1, 2}
AlphaCutoffs == {0, 128}
BgDists      == {35}
\* mask_blur is a float radius; it is kept in tenths (8 is the default 0.8)
MaskBlurs    == {0, 8}
Morphs       == {0, 3}
Palettes     == { <<DefaultWhite, DefaultBlue>>, <<NearKeyWhite, DefaultBlue>> }

Configs == { [white |-> p[1], blue |-> p[2], bg_rgb |-> DefaultBg,
              alpha_cutoff |-> ac, scale |-> s, bg_dist |-> bd,
              mask_blur |-> mb, morph |-> mo] :
             p \in Palettes, ac \in AlphaCutoffs, s \in Scales,
             bd \in BgDists, mb \in MaskBlurs, mo \in Morphs }

(***************************************************************************)
(* Rasters: [w, h, px] with px a function on (1..w) \X (1..h).             *)
(***************************************************************************)
Pos(w, h) == (1..w) \X (1..h)

Raster(w, h, px) == [w |-> w, h |-> h, px |-> px]

Images(w, h) == { Raster(w, h, f) : f \in [Pos(w, h) -> PixelSet] }

Uniform(im) == \A p, q \in Pos(im.w, im.h) : im.px[p] = im.px[q]

\* squared Euclidean RGB distance, as the int32 arithmetic computes it
Dist2(c, k) == (c[1] - k[1]) * (c[1] - k[1]) + (c[2] - k[2]) * (c[2] - k[2])
               + (c[3] - k[3]) * (c[3] - k[3])

\* numpy cast to uint8
U8(x) == x % 256

AsU8(c) == <<U8(c[1]), U8(c[2]), U8(c[3])>>

(***************************************************************************)
(* Image.open(in_png).convert("RGBA") on an RGB file, and the optional     *)
(* LANCZOS upscale.  The resampling filter is library code: a uniform      *)
(* image stays uniform, any other image may come out with any pixel values.*)
(***************************************************************************)
ConvertRGBA(o) ==
    Raster(o.w, o.h, [p \in Pos(o.w, o.h) |->
                        <<o.px[p][1], o.px[p][2], o.px[p][3], 255>>])

Resize(im, scale) ==
    IF scale = 1 THEN {im}
    ELSE IF Uniform(im)
         THEN { Raster(im.w * scale, im.h * scale,
                       [p \in Pos(im.w * scale, im.h * scale) |-> im.px[<<1, 1>>]]) }
         ELSE Images(im.w * scale, im.h * scale)

(***************************************************************************)
(* Foreground test and matte.  A two-valued "L" matte (values 0 and 255)   *)
(* is held as the set of positions whose value is 255.                     *)
(***************************************************************************)
FgAlpha(px, c) == px[4] > c.alpha_cutoff

\* a key test that never rejects a pixel
FgKeyAlways(px, c) == Dist2(px, c.bg_rgb) >= 0

FgKey(px, c) == Dist2(px, c.bg_rgb) > c.bg_dist * c.bg_dist

FgTest(a, c) == { p \in Pos(a.w, a.h) : FgAlpha(a.px[p], c) /\ FgKey(a.px[p], c) }

\* the grey values on either side of the threshold
GrayLevels == {127, 128}

\* ImageFilter.GaussianBlur is library code: a uniform matte is unchanged,
\* in any other matte each blurred value lies somewhere between 0 and 255,
\* on either side of the threshold.
GaussianBlur(fg, w, h) ==
    IF fg = {} \/ fg = Pos(w, h)
    THEN { [p \in Pos(w, h) |-> IF p \in fg THEN 255 ELSE 0] }
    ELSE [Pos(w, h) -> GrayLevels]

\* mask.point(lambda p: 255 if p >= 128 else 0)
Threshold(m, w, h) == { p \in Pos(w, h) : m[p] >= 128 }

Clamp(i, n) == IF i < 1 THEN 1 ELSE IF i > n THEN n ELSE i

\* the size x size window of a rank filter, the image extended by its edge pixels
Window(p, w, h, size) ==
    LET k == size \div 2
    IN  { <<Clamp(p[1] + dx, w), Clamp(p[2] + dy, h)>> : dx \in (-k)..k, dy \in (-k)..k }

MaxFilter(m, w, h, size) == { p \in Pos(w, h) : Window(p, w, h, size) \cap m # {} }

MinFilter(m, w, h, size) == { p \in Pos(w, h) : Window(p, w, h, size) \subseteq m }

Close(m, w, h, morph) ==
    IF morph >= 3 THEN MinFilter(MaxFilter(m, w, h, morph), w, h, morph) ELSE m

\* the final foreground masks the refinement can produce from the raw test
RefinedMasks(a, c) ==
    LET fg0 == FgTest(a, c)
        th  == IF c.mask_blur > 0
               THEN { Threshold(b, a.w, a.h) : b \in GaussianBlur(fg0, a.w, a.h) }
               ELSE { fg0 }
    IN  { Close(m, a.w, a.h, c.morph) : m \in th }

(***************************************************************************)
(* Palette snap.                                                           *)
(***************************************************************************)
\* a comparison that hands ties to the second palette colour
IsBlueOnTie(px, fg, c) == fg /\ Dist2(px, c.blue) <= Dist2(px, c.white)

IsBlue(px, fg, c) == fg /\ Dist2(px, c.blue) < Dist2(px, c.white)

IsWhite(px, fg, c) == fg /\ ~IsBlue(px, fg, c)

\* a snap that keeps the source colour of an exact tie
ClassifyKeepTie(a, fg, c) ==
    Raster(a.w, a.h,
           [p \in Pos(a.w, a.h) |->
               IF IsBlue(a.px[p], p \in fg, c) THEN AsU8(c.blue)
               ELSE IF IsWhite(a.px[p], p \in fg, c)
                    THEN IF Dist2(a.px[p], c.blue) = Dist2(a.px[p], c.white)
                         THEN <<a.px[p][1], a.px[p][2], a.px[p][3]>>
                         ELSE AsU8(c.white)
               ELSE AsU8(c.bg_rgb)])

Classify(a, fg, c) ==
    Raster(a.w, a.h,
           [p \in Pos(a.w, a.h) |->
               IF IsBlue(a.px[p], p \in fg, c) THEN AsU8(c.blue)
               ELSE IF IsWhite(a.px[p], p \in fg, c) THEN AsU8(c.white)
               ELSE AsU8(c.bg_rgb)])

(***************************************************************************)
(* Text.  A Python str is a sequence of one-character strings.  NoneV      *)
(* stands for Python's None where a str is expected.                       *)
(*                                                                         *)
(* Val({ e : x \in {v} }) is "e with x bound to the value of v": v is      *)
(* evaluated once, as a Python local is.                                   *)
(***************************************************************************)
Val(S) == CHOOSE x \in S : TRUE

NoneV == <<"None">>

\* Python truthiness of a str-or-None value
Truthy(v) == v # NoneV /\ v # <<>>

LowerOf == [A |-> "a", B |-> "b", C |-> "c", D |-> "d", E |-> "e", F |-> "f",
            G |-> "g", H |-> "h", I |-> "i", J |-> "j", K |-> "k", L |-> "l",
            M |-> "m", N |-> "n", O |-> "o", P |-> "p", Q |-> "q", R |-> "r",
            S |-> "s", T |-> "t", U |-> "u", V |-> "v", W |-> "w", X |-> "x",
            Y |-> "y", Z |-> "z"]

DigitChars == <<"0", "1", "2", "3", "4", "5", "6", "7", "8", "9">>

\* position of c in seq (0 when it is not there)
IndexOf(c, seq) == IF \E i \in 1..Len(seq) : seq[i] = c
                   THEN CHOOSE i \in 1..Len(seq) : seq[i] = c
                   ELSE 0

LowerChar(c) == IF c \in DOMAIN LowerOf THEN LowerOf[c] ELSE c

\* str.lower()
Lower(str) == Val({ [i \in 1..Len(s) |-> LowerChar(s[i])] : s \in {str} })

IsSpace(c) == c = " "

IsDigit(c) == IndexOf(c, DigitChars) > 0

\* number of blanks at the start of s
LeadingBlanks(s) ==
    CHOOSE k \in 0..Len(s) :
        /\ \A j \in 1..k : IsSpace(s[j])
        /\ k = Len(s) \/ ~IsSpace(s[k + 1])

\* number of blanks at the end of s
TrailingBlanks(s) ==
    CHOOSE k \in 0..Len(s) :
        /\ \A j \in (Len(s) - k + 1)..Len(s) : IsSpace(s[j])
        /\ k = Len(s) \/ ~IsSpace(s[Len(s) - k])

\* str.strip()
Strip(str) ==
    Val({ IF LeadingBlanks(s) = Len(s) THEN <<>>
          ELSE SubSeq(s, LeadingBlanks(s) + 1, Len(s) - TrailingBlanks(s)) : s \in {str} })

Contains(str, c) == Val({ \E i \in 1..Len(s) : s[i] = c : s \in {str} })

\* index of the first c in s (0 when there is none)
Find(str, c) ==
    Val({ IF \E i \in 1..Len(s) : s[i] = c
          THEN CHOOSE i \in 1..Len(s) : s[i] = c /\ \A j \in 1..(i - 1) : s[j] # c
          ELSE 0 : s \in {str} })

\* str.split(sep): the pieces between the separators, empty pieces kept
RECURSIVE Split(_, _)
Split(str, sep) ==
    Val({ IF i = 0 THEN <<s>>
          ELSE <<SubSeq(s, 1, i - 1)>> \o Split(SubSeq(s, i + 1, Len(s)), sep) :
          <<s, i>> \in { <<t, Find(t, sep)>> : t \in {str} } })

\* sep.join(parts)
RECURSIVE Join(_, _)
Join(parts, sep) ==
    Val({ IF ps = <<>> THEN <<>>
          ELSE IF Len(ps) = 1 THEN ps[1]
          ELSE ps[1] \o <<sep>> \o Join(Tail(ps), sep) : ps \in {parts} })

\* part.split(":", 1) for a part that holds a colon
KeyOf(part) == Val({ SubSeq(p, 1, Find(p, ":") - 1) : p \in {part} })
ValOf(part) == Val({ SubSeq(p, Find(p, ":") + 1, Len(p)) : p \in {part} })

(***************************************************************************)
(* int(s, 16) on a two-character slice: two hex digits, or a sign or a     *)
(* blank followed by a hex digit, or a hex digit followed by a blank;      *)
(* anything else raises ValueError.                                        *)
(***************************************************************************)
HexChars == <<"0", "1", "2", "3", "4", "5", "6", "7", "8", "9",
              "a", "b", "c", "d", "e", "f">>

IsHex(c) == IndexOf(LowerChar(c), HexChars) > 0

HexVal(c) == IndexOf(LowerChar(c), HexChars) - 1

Int16Ok(s) ==
    /\ Len(s) = 2
    /\ \/ IsHex(s[1]) /\ IsHex(s[2])
       \/ s[1] \in {"+", "-", " "} /\ IsHex(s[2])
       \/ IsHex(s[1]) /\ IsSpace(s[2])

Int16(s) ==
    IF IsHex(s[1]) /\ IsHex(s[2]) THEN 16 * HexVal(s[1]) + HexVal(s[2])
    ELSE IF IsHex(s[1]) THEN HexVal(s[1])
    ELSE IF s[1] = "-" THEN 0 - HexVal(s[2])
    ELSE HexVal(s[2])

(***************************************************************************)
(* RGB_RE.fullmatch: rgb\(\s*(\d+)\s*,\s*(\d+)\s*,\s*(\d+)\s*\)            *)
(***************************************************************************)
\* first index at or after i that holds no blank (i itself past the end)
SkipSpaces(s, i) ==
    IF i > Len(s) THEN i
    ELSE CHOOSE k \in i..(Len(s) + 1) :
             /\ \A j \in i..(k - 1) : IsSpace(s[j])
             /\ k = Len(s) + 1 \/ ~IsSpace(s[k])

\* first index at or after i that holds no digit
SkipDigits(s, i) ==
    IF i > Len(s) THEN i
    ELSE CHOOSE k \in i..(Len(s) + 1) :
             /\ \A j \in i..(k - 1) : IsDigit(s[j])
             /\ k = Len(s) + 1 \/ ~IsDigit(s[k])

\* int(x) of a run of decimal digits
RECURSIVE DecVal(_)
DecVal(digits) ==
    Val({ IF d = <<>> THEN 0
          ELSE 10 * DecVal(SubSeq(d, 1, Len(d) - 1)) + (IndexOf(d[Len(d)], DigitChars) - 1) :
          d \in {digits} })

\* the match of \s*(\d+)\s* from index i: [ok, val, next]
Group(s, i) ==
    Val({ [ok |-> b > a, val |-> DecVal(SubSeq(s, a, b - 1)), next |-> SkipSpaces(s, b)] :
          <<a, b>> \in { <<k, SkipDigits(s, k)>> : k \in {SkipSpaces(s, i)} } })

At(s, i, c) == i <= Len(s) /\ s[i] = c

\* [ok, rgb] of the full match on an already bound string v
RgbMatch(v) ==
    Val({ IF /\ Len(v) >= 4
             /\ Lower(SubSeq(v, 1, 4)) = <<"r", "g", "b", "(">>
             /\ g[1].ok /\ At(v, g[1].next, ",")
             /\ g[2].ok /\ At(v, g[2].next, ",")
             /\ g[3].ok /\ At(v, g[3].next, ")") /\ g[3].next = Len(v)
          THEN [ok |-> TRUE, rgb |-> <<g[1].val, g[2].val, g[3].val>>]
          ELSE [ok |-> FALSE, rgb |-> <<0, 0, 0>>] :
          g \in { <<g1, g2, Group(v, g2.next + 1)>> :
                  <<g1, g2>> \in { <<h, Group(v, h.next + 1)>> : h \in {Group(v, 5)} } } })

(***************************************************************************)
(* color_to_rgb: [kind, rgb] with kind "rgb" (a colour), "none" (None) or  *)
(* "raise" (ValueError out of int(..., 16)).                               *)
(***************************************************************************)
RgbOf(c)  == [kind |-> "rgb", rgb |-> c]
NoRgb     == [kind |-> "none", rgb |-> <<0, 0, 0>>]
Raises    == [kind |-> "raise", rgb |-> <<0, 0, 0>>]

\* the branches of color_to_rgb on the stripped, lower-cased value v
ColorOfLowered(v) ==
    IF v = <<"n", "o", "n", "e">> THEN NoRgb
    ELSE IF Len(v) = 7 /\ v[1] = "#"
         THEN IF /\ Int16Ok(SubSeq(v, 2, 3))
                 /\ Int16Ok(SubSeq(v, 4, 5))
                 /\ Int16Ok(SubSeq(v, 6, 7))
              THEN RgbOf(<<Int16(SubSeq(v, 2, 3)), Int16(SubSeq(v, 4, 5)),
                           Int16(SubSeq(v, 6, 7))>>)
              ELSE Raises
         ELSE Val({ IF m.ok THEN RgbOf(m.rgb) ELSE NoRgb : m \in {RgbMatch(v)} })

color_to_rgb(value) ==
    Val({ IF ~Truthy(v0) THEN NoRgb
          ELSE Val({ ColorOfLowered(v) : v \in {SubSeq(Lower(Strip(v0)), 1, Len(Strip(v0)))} }) :
          v0 \in {value} })

\* rgb_dist(a, b) <= tol for a tolerance tol >= 0 (squares compared)
rgb_dist_le(a, b, tol) == Dist2(a, b) <= tol * tol

(***************************************************************************)
(* style_get / style_set on a "k:v;k:v" style string.                      *)
(***************************************************************************)
KeyIs(part, key) == Lower(Strip(KeyOf(part))) = Lower(key)

\* indices of the parts that hold a colon and the key
KeyParts(parts, key) ==
    { i \in 1..Len(parts) : Contains(parts[i], ":") /\ KeyIs(parts[i], key) }

style_get(style, key) ==
    IF ~Truthy(style) THEN NoneV
    ELSE Val({ IF hits = {} THEN NoneV
               ELSE Strip(ValOf(parts[CHOOSE i \in hits : \A j \in hits : i <= j])) :
               <<parts, hits>> \in { <<ps, KeyParts(ps, key)>> : ps \in {Split(style, ";")} } })

\* [p.strip() for p in style.split(";") if p.strip()]
StrippedParts(raw) ==
    Val({ SelectSeq(ps, LAMBDA p : p # <<>>) :
          ps \in { [i \in 1..Len(r) |-> Strip(r[i])] : r \in {raw} } })

\* the part as style_set writes it back
Rewritten(part, key, value) ==
    IF ~Contains(part, ":") THEN part
    ELSE IF KeyIs(part, key) THEN Strip(KeyOf(part)) \o <<":">> \o value
    ELSE Strip(KeyOf(part)) \o <<":">> \o Strip(ValOf(part))

style_set(style, key, value) ==
    Val({ Join(IF KeyParts(ps, key) # {}
               THEN [i \in 1..Len(ps) |-> Rewritten(ps[i], key, value)]
               ELSE [i \in 1..Len(ps) |-> Rewritten(ps[i], key, value)]
                    \o <<key \o <<":">> \o value>>, ";") :
          ps \in {StrippedParts(Split(IF Truthy(style) THEN style ELSE <<>>, ";"))} })

(***************************************************************************)
(* Vector documents.  A parsed document is [ok, parent, attrib, live]:     *)
(* the elements are numbered in document order (the order of root.iter()), *)
(* parent[i] is the parent of element i (0 for the root), attrib[i] holds  *)
(* its fill / stroke / style attributes (a function on the names present)  *)
(* and live is the set of elements in the tree.  ok = FALSE is markup that *)
(* ET.fromstring cannot parse.                                             *)
(***************************************************************************)
S_fill   == <<"f", "i", "l", "l">>
S_stroke == <<"s", "t", "r", "o", "k", "e">>
S_none   == <<"n", "o", "n", "e">>

HexKey      == <<"#", "f", "f", "0", "0", "f", "f">>
HexKeyUpper == <<"#", "F", "F", "0", "0", "F", "F">>
HexBlack    == <<"#", "0", "0", "0", "0", "0", "0">>
FuncNearKey == <<"r", "g", "b", "(", "2", "5", "5", ",", " ", "0", ",", " ", "2", "5", "4", ")">>
NamedRed    == <<"r", "e", "d">>
Hex3Key     == <<"#", "f", "0", "f">>
BadHex      == <<"#", "g", "g", "0", "0", "f", "f">>
StyleHalo   == <<"F", "I", "L", "L", ":", "#", "0", "0", "0", "0", "0", "0", ";", "s", "t", "r", "o", "k", "e", ":", " ", "#", "f", "f", "0", "0", "f", "f", " ", ";", "o", "p", "a", "c", "i", "t", "y">>
StyleStroke == <<"s", "t", "r", "o", "k", "e", ":", "#", "f", "f", "0", "0", "f", "f", ";", "f", "i", "l", "l", ":", "u", "r", "l", "(", "#", "g", ")">>

\* the attribute dictionaries an element of the model can carry
ElementKinds ==
    { [fill |-> HexKey],
      [fill |-> HexBlack, stroke |-> FuncNearKey],
      [style |-> StyleHalo],
      [fill |-> HexKeyUpper, stroke |-> HexKey],
      [fill |-> Hex3Key, stroke |-> S_none],
      [fill |-> NamedRed, stroke |-> BadHex],
      [stroke |-> <<>>, style |-> StyleStroke] }

BgTols == {0, 5}

RECURSIVE AncSelf(_, _)
\* element i and its ancestors
AncSelf(parent, i) == IF i = 0 THEN {} ELSE {i} \cup AncSelf(parent, parent[i])

\* parent vectors of the trees with n elements listed in document order
TreeShapes(n) ==
    { p \in [1..n -> 0..(n - 1)] :
        /\ p[1] = 0
        /\ \A i \in 2..n : p[i] \in AncSelf(p, i - 1) }

Doc(p, a) == [ok |-> TRUE, parent |-> p, attrib |-> a, live |-> 1..Len(a)]

Malformed == [ok |-> FALSE, parent |-> <<>>, attrib |-> <<>>, live |-> {}]

NoDoc == [ok |-> FALSE, parent |-> <<>>, attrib |-> <<>>, live |-> {}]

(***************************************************************************)
(* remove_key_color_from_svg.                                              *)
(***************************************************************************)
\* el.get(name)
Get(el, name) == IF name \in DOMAIN el THEN el[name] ELSE NoneV

\* el.get("style", "")
GetStyle(el) == IF "style" \in DOMAIN el THEN el["style"] ELSE <<>>

\* a or b
Or(a, b) == IF Truthy(a) THEN a ELSE b

\* el.set(name, value)
Set(el, name, value) ==
    [k \in DOMAIN el \cup {name} |-> IF k = name THEN value ELSE el[k]]

\* el.get("fill") or style_get(style, "fill"), and the same for the stroke
ResolveFill(el)   == Or(Get(el, "fill"), style_get(GetStyle(el), S_fill))
ResolveStroke(el) == Or(Get(el, "stroke"), style_get(GetStyle(el), S_stroke))

\* color_to_rgb(v) if v else None
ToRgb(v) == IF Truthy(v) THEN color_to_rgb(v) ELSE NoRgb

\* c and rgb_dist(c, bg_rgb) <= tol
IsBg(c, bg, tol) == c.kind = "rgb" /\ rgb_dist_le(c.rgb, bg, tol)

\* a removal test that forgets the key-coloured stroke
PureBackgroundNoStroke(fill_rgb, stroke_rgb, bg, tol) ==
    IsBg(fill_rgb, bg, tol) /\ stroke_rgb.kind # "rgb"

\* the test of the "remove pure background elements" branch
PureBackground(fill_rgb, stroke_rgb, bg, tol) ==
    IsBg(fill_rgb, bg, tol) /\ (stroke_rgb.kind # "rgb" \/ IsBg(stroke_rgb, bg, tol))

\* the "strip bg-colored strokes" branch
StripStroke(el) ==
    IF "stroke" \in DOMAIN el THEN Set(el, "stroke", S_none)
    ELSE Set(el, "style", style_set(GetStyle(el), S_stroke, S_none))

\* the branches of the loop body for element i, its colours resolved;
\* acc = [attrib, detached, removed, strokestripped, raised]
Branches(doc, i, bg, tol, acc, fill_rgb, stroke_rgb) ==
    IF fill_rgb.kind = "raise" \/ stroke_rgb.kind = "raise"
    THEN [acc EXCEPT !.raised = TRUE]
    ELSE IF PureBackground(fill_rgb, stroke_rgb, bg, tol)
         THEN IF doc.parent[i] # 0
              THEN [acc EXCEPT !.detached = @ \cup {i}, !.removed = @ + 1]
              ELSE acc
         ELSE IF IsBg(stroke_rgb, bg, tol)
              THEN [acc EXCEPT !.attrib[i] = StripStroke(acc.attrib[i]),
                               !.strokestripped = @ + 1]
              ELSE acc

\* one pass of the loop body over element i
LoopBody(doc, i, bg, tol, acc) ==
    Val({ Branches(doc, i, bg, tol, acc, c[1], c[2]) :
          c \in { <<ToRgb(ResolveFill(el)), ToRgb(ResolveStroke(el))>> :
                  el \in {acc.attrib[i]} } })

RECURSIVE Loop(_, _, _, _, _)
\* for el in list(root.iter()), from element i on
Loop(doc, i, bg, tol, acc) ==
    IF i > Len(doc.attrib) \/ acc.raised THEN acc
    ELSE Val({ Loop(doc, i + 1, bg, tol, a) : a \in {LoopBody(doc, i, bg, tol, acc)} })

\* [raised, doc, removed, strokestripped] of a call on a parsed document
remove_key_color_from_svg(doc, bg, tol) ==
    Val({ [raised |-> r.raised,
           doc |-> [ok |-> TRUE, parent |-> doc.parent, attrib |-> r.attrib,
                    live |-> { i \in doc.live :
                                 AncSelf(doc.parent, i) \cap r.detached = {} }],
           removed |-> r.removed,
           strokestripped |-> r.strokestripped] :
          r \in { Loop(doc, 1, bg, tol,
                       [attrib |-> doc.attrib, detached |-> {}, removed |-> 0,
                        strokestripped |-> 0, raised |-> FALSE]) } })

(***************************************************************************)
(* The pipeline of svg_wrapper.main after the trace: the filter, then the  *)
(* minifier.                                                               *)
(***************************************************************************)
RasterIdle ==
    /\ pc = "idle"
    /\ cfg = None /\ img = None /\ arr = None /\ mask = None
    /\ out = None /\ prev = None /\ run = 0

VectorIdle ==
    /\ stage = "idle"
    /\ svg_text = NoDoc /\ bg_tol = 0 /\ cleaned = NoDoc
    /\ removed = 0 /\ strokestripped = 0 /\ exc = "none"

InitSvg ==
    /\ RasterIdle
    /\ stage = "traced"
    /\ \/ svg_text = Malformed
       \/ \E n \in 1..MaxElems :
             \E p \in TreeShapes(n), a \in [1..n -> ElementKinds] : svg_text = Doc(p, a)
    /\ bg_tol \in BgTols
    /\ cleaned = NoDoc
    /\ removed = 0
    /\ strokestripped = 0
    /\ exc = "none"

\* generate_svg: cleaned, removed, stripped = remove_key_color_from_svg(...)
Filter ==
    /\ stage = "traced"
    /\ IF ~svg_text.ok
       THEN /\ stage' = "raised"
            /\ exc' = "ParseError"
            /\ UNCHANGED <<cleaned, removed, strokestripped>>
       ELSE \E r \in {remove_key_color_from_svg(svg_text, DefaultBg, bg_tol)} :
                IF r.raised
                THEN /\ stage' = "raised"
                     /\ exc' = "ValueError"
                     /\ UNCHANGED <<cleaned, removed, strokestripped>>
                ELSE /\ stage' = "generated"
                     /\ cleaned' = r.doc
                     /\ removed' = r.removed
                     /\ strokestripped' = r.strokestripped
                     /\ exc' = "none"
    /\ UNCHANGED <<svg_text, bg_tol, rvars>>

\* svg_wrapper.main: except Exception -> sys.exit(1)
WrapperExit ==
    /\ stage = "raised"
    /\ stage' = "exit"
    /\ UNCHANGED <<svg_text, bg_tol, cleaned, removed, strokestripped, exc, rvars>>

\* svg_wrapper.main: the minifier runs on the generated markup
Scour ==
    /\ stage = "generated"
    /\ \E returncode \in {0, 1} :
          stage' = IF returncode # 0 THEN "exit" ELSE "written"
    /\ UNCHANGED <<svg_text, bg_tol, cleaned, removed, strokestripped, exc, rvars>>

NextSvg == Filter \/ WrapperExit \/ Scour

SpecSvg == InitSvg /\ [][NextSvg]_vars

(***************************************************************************)
(* Actions of the raster model.                                            *)
(***************************************************************************)
InitFlat ==
    /\ VectorIdle
    /\ pc = "input"
    /\ cfg \in Configs
    /\ \E w \in 1..MaxPixels, h \in 1..MaxPixels :
          /\ w * h * cfg.scale * cfg.scale <= MaxPixels
          /\ img \in Images(w, h)
    /\ arr = None
    /\ mask = None
    /\ out = None
    /\ prev = None
    /\ run = 1

\* preprocess_flat_keyed_rgb(in_png, out_png_rgb, ...)
Flatten ==
    /\ pc = "input"
    /\ \E a \in Resize(img, cfg.scale) :
          \E fg \in RefinedMasks(a, cfg) :
             /\ arr' = a
             /\ mask' = fg
             /\ out' = Classify(a, fg, cfg)
    /\ pc' = "flat"
    /\ UNCHANGED <<cfg, img, prev, run, svars>>

\* the written raster is handed back as the input of a second run
FeedBack ==
    /\ pc = "flat"
    /\ run = 1
    /\ img' = ConvertRGBA(out)
    /\ prev' = out
    /\ run' = 2
    /\ pc' = "input"
    /\ arr' = None
    /\ mask' = None
    /\ out' = None
    /\ UNCHANGED <<cfg, svars>>

NextFlat == Flatten \/ FeedBack

SpecFlat == InitFlat /\ [][NextFlat]_vars

(***************************************************************************)
(* Properties of the raster model (checked under SpecFlat).                *)
(***************************************************************************)
Colours(o) == { o.px[p] : p \in Pos(o.w, o.h) }

\* C1: every pixel of the written raster is exactly the key colour or one of
\* the two palette colours.
C1_ExactPalette ==
    pc = "flat" => Colours(out) \subseteq {cfg.bg_rgb, cfg.white, cfg.blue}

\* a written raster that shows all three colours after blur and closing
C1_Witness ==
    /\ pc = "flat"
    /\ cfg.mask_blur > 0
    /\ cfg.morph >= 3
    /\ Colours(out) = {cfg.bg_rgb, cfg.white, cfg.blue}
    /\ Cardinality(Colours(out)) = 3

\* C2: a pixel whose alpha (after upscaling) is at most the cutoff comes out
\* as the key colour, whatever the blur radius and the closing size.
C2_AlphaCutoffIsBackground ==
    pc = "flat" =>
        \A p \in Pos(arr.w, arr.h) :
            arr.px[p][4] <= cfg.alpha_cutoff => out.px[p] = cfg.bg_rgb

\* C3: a pixel of the final mask gets a palette colour at least as near to
\* its source colour as the other one, and white when both are equally near.
C3_NearestPalette ==
    pc = "flat" =>
        \A p \in mask :
            LET src == arr.px[p]
                o   == out.px[p]
            IN  /\ o \in {cfg.white, cfg.blue}
                /\ Dist2(src, o) <= Dist2(src, cfg.white)
                /\ Dist2(src, o) <= Dist2(src, cfg.blue)
                /\ Dist2(src, cfg.white) = Dist2(src, cfg.blue) => o = cfg.white

\* a final mask with an exact tie next to a pixel that is strictly nearer blue
C3_Witness ==
    /\ pc = "flat"
    /\ cfg.white # cfg.blue
    /\ \E p, q \in mask :
          /\ Dist2(arr.px[p], cfg.white) = Dist2(arr.px[p], cfg.blue)
          /\ out.px[p] = cfg.white
          /\ Dist2(arr.px[q], cfg.blue) < Dist2(arr.px[q], cfg.white)
          /\ out.px[q] = cfg.blue

\* C4 as claimed: a second run on the written raster, with the same
\* configuration, writes the same raster again.
C4_Idempotent ==
    (pc = "flat" /\ run = 2) => out = prev

\* both palette colours pass the key-distance test
PaletteFarFromKey(c) ==
    /\ Dist2(c.white, c.bg_rgb) > c.bg_dist * c.bg_dist
    /\ Dist2(c.blue, c.bg_rgb) > c.bg_dist * c.bg_dist

\* C4 amended: with scale 1, the blur off and both palette colours farther
\* than bg-dist from the key colour, the second run writes the same raster.
C4_IdempotentUnscaled ==
    (/\ pc = "flat" /\ run = 2
     /\ cfg.scale = 1 /\ cfg.mask_blur = 0 /\ PaletteFarFromKey(cfg)) => out = prev

\* a second run, with closing on, over a raster that mixes key and palette
\* colours
C4_Witness ==
    /\ pc = "flat" /\ run = 2
    /\ cfg.scale = 1 /\ cfg.mask_blur = 0 /\ cfg.morph >= 3 /\ PaletteFarFromKey(cfg)
    /\ cfg.bg_rgb \in Colours(prev)
    /\ Cardinality(Colours(prev)) = 3
    /\ out = prev

(***************************************************************************)
(* Properties of the vector model (checked under SpecSvg).                 *)
(***************************************************************************)
Elems(doc) == 1..Len(doc.attrib)

FillOf(doc, i)   == ToRgb(ResolveFill(doc.attrib[i]))
StrokeOf(doc, i) == ToRgb(ResolveStroke(doc.attrib[i]))

\* the removal rule of the claims: the fill is within tolerance of the key
\* and there is no stroke colour or the stroke is within tolerance too
RemovalRule(doc, i) ==
    /\ FillOf(doc, i).kind = "rgb"
    /\ Dist2(FillOf(doc, i).rgb, DefaultBg) <= bg_tol * bg_tol
    /\ \/ StrokeOf(doc, i).kind # "rgb"
       \/ Dist2(StrokeOf(doc, i).rgb, DefaultBg) <= bg_tol * bg_tol

StrokeIsKey(doc, i) ==
    /\ StrokeOf(doc, i).kind = "rgb"
    /\ Dist2(StrokeOf(doc, i).rgb, DefaultBg) <= bg_tol * bg_tol

Returned == stage = "generated"

\* C5 as claimed: every element that satisfies the removal rule, the root
\* included, is absent from the returned document and counted.
C5_RuleRemovesEveryElement ==
    Returned =>
        /\ \A i \in Elems(svg_text) : RemovalRule(svg_text, i) => i \notin cleaned.live
        /\ removed = Cardinality({ i \in Elems(svg_text) : RemovalRule(svg_text, i) })

\* C5 amended: every element other than the root that satisfies the removal
\* rule is absent from the returned document and counted; the root stays.
C5_RuleRemovesNonRoot ==
    Returned =>
        /\ \A i \in Elems(svg_text) :
              (svg_text.parent[i] # 0 /\ RemovalRule(svg_text, i)) => i \notin cleaned.live
        /\ removed = Cardinality({ i \in Elems(svg_text) :
                                     svg_text.parent[i] # 0 /\ RemovalRule(svg_text, i) })
        /\ 1 \in cleaned.live

\* a returned document whose root and two more elements, one of them with a
\* key-coloured stroke, satisfy the removal rule
C5_Witness ==
    /\ Returned
    /\ RemovalRule(svg_text, 1)
    /\ removed >= 2
    /\ \E i \in Elems(svg_text) :
          /\ svg_text.parent[i] # 0
          /\ RemovalRule(svg_text, i) /\ StrokeIsKey(svg_text, i)
          /\ i \notin cleaned.live

\* C6: an element left in the document whose stroke was within tolerance of
\* the key has its stroke resolve to "none" and its fill unchanged, the
\* strokes stripped are counted once each, and no element of the returned
\* document keeps a stroke within tolerance of the key.
C6_StrokeNeutralised ==
    Returned =>
        /\ \A i \in cleaned.live :
              StrokeIsKey(svg_text, i) =>
                  /\ ResolveStroke(cleaned.attrib[i]) = S_none
                  /\ ResolveFill(cleaned.attrib[i]) = ResolveFill(svg_text.attrib[i])
        /\ strokestripped = Cardinality({ i \in Elems(svg_text) :
                                ~RemovalRule(svg_text, i) /\ StrokeIsKey(svg_text, i) })
        /\ \A i \in cleaned.live : ~StrokeIsKey(cleaned, i)

\* C7: unparsable markup passes through the filter unchanged, nothing is
\* raised and the pipeline goes on to the minifier.
C7_MalformedPassThrough ==
    (~svg_text.ok /\ stage # "traced") =>
        /\ exc = "none"
        /\ stage \in {"generated", "written"}
        /\ cleaned = svg_text /\ removed = 0 /\ strokestripped = 0

\* the two notations color_to_rgb accepts
IsHex6(v) ==
    LET t == Strip(v)
    IN  Len(t) = 7 /\ t[1] = "#" /\ \A k \in 2..7 : IsHex(t[k])

IsFunctional(v) == RgbMatch(Lower(Strip(v))).ok

ColourValues(doc) ==
    UNION { { ResolveFill(doc.attrib[i]), ResolveStroke(doc.attrib[i]) } : i \in Elems(doc) }

\* C8: a fill or stroke value in neither accepted notation resolves to
\* unknown, and the call does not raise on account of it.
C8_UnknownNotationIsNone ==
    (svg_text.ok /\ stage # "traced") =>
        /\ \A v \in ColourValues(svg_text) :
              (Truthy(v) /\ ~IsHex6(v) /\ ~IsFunctional(v)) => color_to_rgb(v).kind = "none"
        /\ exc # "ValueError"

\* C9: when every element satisfies the removal rule the document comes back
\* unchanged.
C9_DegenerateGuard ==
    (Returned /\ \A i \in Elems(svg_text) : RemovalRule(svg_text, i)) =>
        (cleaned.live = svg_text.live /\ cleaned.attrib = svg_text.attrib)

\* C10: an element is missing from the returned document only if it
\* satisfies the removal rule itself, and removed counts the missing elements.
C10_OnlyBackgroundLost ==
    Returned =>
        /\ \A i \in svg_text.live \ cleaned.live : RemovalRule(svg_text, i)
        /\ removed = Cardinality(svg_text.live \ cleaned.live)

====
